---- MODULE Spec2Model ----
(***************************************************************************)
(* A model of the research-agent API: the hybrid retrieval index           *)
(* (RetrievalPipeline), the request handlers that run on the server's      *)
(* event loop (upload, query, reset), the answering pipeline               *)
(* (GraphService), the LLM oracle (LLMService) and the conversation        *)
(* memory (MemoryService).                                                 *)
(*                                                                         *)
(* Scores, grades and weights are in tenths: 10 is 1.0, 5 is 0.5.          *)
(***************************************************************************)
EXTENDS Integers, Sequences, FiniteSets, TLC

\* ------------------------------------------------------------------ bounds
NumDocs == 2
MaxMsgs == 2
MaxProbeFails == 2
MaxChunks == 3
MaxLogged == 3

DocIds == 1..NumDocs
DocSets == SUBSET DocIds

\* The three kinds of caller: the upload handler, the query handler, and a
\* direct client of the RetrievalPipeline class (as the unit tests are).
Tasks == {"upload", "query", "client"}
NoTask == "none"

\* The thread a request names, and the one uuid4 makes for a request that
\* names none.
ThreadIds == {"t1", "u1"}
Absent == [present |-> FALSE, messages |-> <<>>]

\* ------------------------------------------------------------- index values
\* A field that is None in the code.
NoStore == [some |-> FALSE, src |-> {}]
NoKeyword == [some |-> FALSE, src |-> {}, k |-> 0]
NoEnsemble ==
  [some |-> FALSE, vec |-> {}, kw |-> {}, search |-> "none",
   vk |-> 0, kk |-> 0, wv |-> 0, wk |-> 0]

\* text_splitter.split_documents(docs): the chunks, each tagged with the
\* document it was cut from.
split_documents(docs) == docs

\* BM25Retriever.from_documents(doc_splits, similarity_top_k=k)
BM25FromDocuments(doc_splits, k) == [some |-> TRUE, src |-> doc_splits, k |-> k]

\* The EnsembleRetriever rebuild constructs: similarity search with k = 6 on
\* the dense store, weights 0.7 / 0.3.
RebuildEnsembleOf(vs, kwr) ==
  [some |-> TRUE, vec |-> vs.src, kw |-> kwr.src, search |-> "similarity",
   vk |-> 6, kk |-> kwr.k, wv |-> 7, wk |-> 3]

\* The EnsembleRetriever load_vectorstore constructs: thresholded search with
\* k = 2 on the loaded store, a new BM25 retriever over self.documents,
\* weights 0.2 / 0.8.
LoadEnsembleOf(vs, docs) ==
  [some |-> TRUE, vec |-> vs.src, kw |-> split_documents(docs),
   search |-> "similarity_score_threshold",
   vk |-> 2, kk |-> 2, wv |-> 2, wk |-> 8]

RECURSIVE SetToSeq(_)
SetToSeq(S) ==
  IF S = {} THEN <<>>
  ELSE LET m == CHOOSE x \in S : \A y \in S : x <= y
       IN <<m>> \o SetToSeq(S \ {m})

\* ensemble_retriever.invoke(question) followed by retrieve's snippet loop:
\* one entry per chunk either sub-retriever returns, each with the constant
\* score 1.0.
Source(d) == <<"docs", d>>

\* A text is known by the chunk it comes from and its length; a slice
\* text[:n] is the prefix of that text with at most n characters. The snippet
\* retrieve keeps of chunk 1 is short, those of the other chunks are long.
Content(d) == [of |-> d, len |-> IF d = 1 THEN 300 ELSE 1000]
Slice(text, n) == [text EXCEPT !.len = IF @ < n THEN @ ELSE n]

VARIABLES
  vectorstore, keyword_retriever, ensemble_retriever, documents, embeddings,
  disk,      \* what save_vectorstore left in the directory
  running,   \* the task that holds the event loop, or NoTask
  pc,        \* each task's position
  docs,      \* each task's argument of its last rebuild
  lastOp,    \* the direct client's last completed call that wrote the index
  ret,       \* each task's result of retrieve, until its next call
  before,    \* each task's rebuild: what the index held when it was called
  upload_resp,
  qs,            \* the query handler's Query State and its call log
  query_resp,    \* the query handler's response
  conversations, \* MemoryService.conversations
  primary_llm, backup_llm,  \* LLMService._primary_llm, _backup_llm
  llm_call,      \* the invoke in progress on the LLM service
  tracing        \* the tracing_service module and its TracingService object

index == <<vectorstore, keyword_retriever, ensemble_retriever, documents, embeddings>>
appvars == <<qs, query_resp, conversations>>
\* The LLM service and the tracing service whose handler its models report to.
llmvars == <<primary_llm, backup_llm, llm_call, tracing>>
vars == <<vectorstore, keyword_retriever, ensemble_retriever, documents,
          embeddings, disk, running, pc, docs, lastOp, ret, before, upload_resp,
          qs, query_resp, conversations, primary_llm, backup_llm, llm_call,
          tracing>>

\* ---------------------------------------------------------------- the loop
\* The program points at which a handler gives the event loop back: the
\* upload handler's `await process_uploaded_pdf(file)`, and a handler's end
\* (its response is out). A request that waits to be dispatched does not hold
\* the loop either. No other handler awaits anything.
\* A loop that may switch handlers at every step (handlers run as threads).
YieldsPreemptive(p) == TRUE
Yields(p) == p \in {"idle", "u_await", "q_queued"}

CanRun(t) == running = t \/ running = NoTask
Goto(t, p) ==
  /\ pc' = [pc EXCEPT ![t] = p]
  /\ running' = IF Yields(p) THEN NoTask ELSE t

NoRet ==
  [outcome |-> "none", from |-> NoEnsemble, results |-> <<>>, last |-> <<>>]
NoUploadResp == [status |-> 0, rebuilt |-> FALSE]
NoHeld == [ready |-> FALSE, snap |-> {}]
NoResp == [status |-> 0, answer |-> "none", references |-> <<>>, thread_id |-> "none"]
NoCall == [pc |-> "idle", probed |-> FALSE, served |-> "none", result |-> "none",
           probeOk |-> FALSE, primaryOk |-> FALSE, backupOk |-> FALSE,
           setup |-> FALSE, failed |-> 0]
NoOver == [old |-> {}, new |-> {}]
NoQuery ==
  [question |-> "none", thread_id |-> "none", route |-> "none",
   documents |-> <<>>, rewritten_question |-> "none", graded_docs |-> <<>>,
   relevant_docs |-> <<>>, answer |-> "none", i |-> 0,
   log |-> <<>>, hd |-> "none", via |-> "none",
   thread0 |-> <<>>, overlaps |-> 0, over |-> NoOver,
   reply |-> "none", unparsed |-> {}, request_thread_id |-> "none"]

\* The tracing_service module before its import, and after an import in which
\* TracingService() succeeded: the client, the callback handler, the number
\* of logger.error lines written, and whether the client was shut down.
NoTracing ==
  [module |-> "unloaded", langfuse |-> FALSE, handler |-> FALSE,
   logged |-> 0, closed |-> FALSE]
TracingUp ==
  [NoTracing EXCEPT !.module = "loaded", !.langfuse = TRUE, !.handler = TRUE]

InitServices ==
  /\ vectorstore = NoStore
  /\ keyword_retriever = NoKeyword
  /\ ensemble_retriever = NoEnsemble
  /\ documents = {}
  /\ embeddings = "None"
  /\ disk = NoStore
  /\ docs = [t \in Tasks |-> {}]
  /\ ret = [t \in Tasks |-> NoRet]
  /\ upload_resp = NoUploadResp
  /\ before = [t \in Tasks |-> NoHeld]
  /\ query_resp = NoResp
  /\ conversations = [t \in ThreadIds |-> Absent]
  /\ llm_call = NoCall

\* The services as the running application holds them: the import of
\* tracing_service succeeded.
InitShared == InitServices /\ tracing = TracingUp

InitBase ==
  /\ InitShared
  /\ lastOp = [op |-> "init", ret |-> "ok"]
  /\ running = NoTask
  /\ pc = [t \in Tasks |-> "idle"]
  /\ qs = NoQuery

\* LLMService() ran setup_llm once; either constructor may have failed.
InitLLM == InitBase /\ primary_llm \in BOOLEAN /\ backup_llm \in BOOLEAN

\* The server as deployed, with both API keys configured: both handles exist.
Init == InitBase /\ primary_llm = TRUE /\ backup_llm = TRUE

\* ------------------------------------------------------- RetrievalPipeline
\* A readiness test that looks at the dense store only.
has_documents_any == vectorstore.some
has_documents ==
  /\ Cardinality(documents) > 0
  /\ vectorstore.some
  /\ ensemble_retriever.some

\* What a caller of rebuild or reset finds in the index at the call.
Held == [ready |-> has_documents, snap |-> documents]

\* FAISS.from_documents(doc_splits, embeddings)
\* A dense store that adds the chunks to those the index held at the call.
FaissFromDocumentsMerged(doc_splits) ==
  [some |-> TRUE, src |-> doc_splits \cup before["client"].snap]
FaissFromDocuments(doc_splits) == [some |-> TRUE, src |-> doc_splits]

\* The list the direct caller's earlier retrieve returned on this index, if
\* any; every write of the index by that caller forgets it.
Earlier(t) ==
  IF t = "client" /\ ret[t].outcome = "ok" THEN ret[t].results ELSE ret[t].last

\* A retriever that returns the list the other way round on a later call.
RetrieveResultsTurning(ens) ==
  LET ids == SetToSeq(ens.vec \cup ens.kw)
      n == Len(ids)
  IN [i \in 1..n |->
        LET d == ids[IF Earlier("client") # <<>> THEN n + 1 - i ELSE i]
        IN [content |-> Content(d), source |-> Source(d), score |-> 10]]
RetrieveResults(ens) ==
  LET ids == SetToSeq(ens.vec \cup ens.kw)
  IN [i \in 1..Len(ids) |->
        [content |-> Content(ids[i]), source |-> Source(ids[i]), score |-> 10]]

\* reset(): every field back to its constructor value.
\* A reset that drops the keyword retriever and the embeddings only.
ResetFieldsShallow ==
  /\ keyword_retriever' = NoKeyword
  /\ embeddings' = "None"
  /\ UNCHANGED <<vectorstore, ensemble_retriever, documents>>
\* A reset that clears nothing.
ResetFieldsNone == UNCHANGED index
\* A reset that keeps the list of documents.
ResetFieldsKeepDocuments ==
  /\ vectorstore' = NoStore
  /\ keyword_retriever' = NoKeyword
  /\ ensemble_retriever' = NoEnsemble
  /\ embeddings' = "None"
  /\ UNCHANGED documents
ResetFields ==
  /\ vectorstore' = NoStore
  /\ keyword_retriever' = NoKeyword
  /\ ensemble_retriever' = NoEnsemble
  /\ documents' = {}
  /\ embeddings' = "None"

\* How rebuild ends for its caller: the client gets the call back, the upload
\* handler goes on to build its response.
RebuildReturns(t) ==
  IF t = "client"
  THEN /\ Goto(t, "idle")
       /\ lastOp' = [op |-> "rebuild", ret |-> "ok"]
       /\ UNCHANGED upload_resp
  ELSE /\ Goto(t, "u_respond")
       /\ UNCHANGED <<lastOp, upload_resp>>

\* rebuild raises: the exception leaves rebuild with the fields as they are;
\* upload_documents turns it into status 500.
RebuildRaises(t) ==
  IF t = "client"
  THEN /\ Goto(t, "idle")
       /\ lastOp' = [op |-> "rebuild", ret |-> "raise"]
       /\ UNCHANGED upload_resp
  ELSE /\ Goto(t, "done")
       /\ upload_resp' = [upload_resp EXCEPT !.status = 500]
       /\ UNCHANGED lastOp

\* rebuild, line 48: self.reset()
RebuildReset(t) ==
  /\ pc[t] = "b_reset" /\ CanRun(t)
  /\ ResetFields
  /\ Goto(t, "b_embed")
  /\ UNCHANGED <<disk, docs, lastOp, ret, upload_resp>>
  /\ UNCHANGED <<before, appvars, llmvars>>

\* rebuild, lines 54-62: split, embed, build the dense store; the embedding
\* call is a network call and may raise.
RebuildEmbed(t) ==
  /\ pc[t] = "b_embed" /\ CanRun(t)
  /\ \/ /\ embeddings' = "emb"
        /\ vectorstore' = FaissFromDocuments(split_documents(docs[t]))
        /\ Goto(t, "b_keyword")
        /\ UNCHANGED <<keyword_retriever, ensemble_retriever, documents,
                       lastOp, upload_resp>>
     \/ /\ RebuildRaises(t)   \* OpenAIEmbeddings(...) raises
        /\ UNCHANGED index
     \/ /\ RebuildRaises(t)   \* FAISS.from_documents raises
        /\ embeddings' = "emb"
        /\ UNCHANGED <<vectorstore, keyword_retriever, ensemble_retriever, documents>>
  /\ UNCHANGED <<disk, docs, ret>>
  /\ UNCHANGED <<before, appvars, llmvars>>

\* rebuild, line 64: the lexical retriever; may raise.
RebuildKeyword(t) ==
  /\ pc[t] = "b_keyword" /\ CanRun(t)
  /\ \/ /\ keyword_retriever' = BM25FromDocuments(split_documents(docs[t]), 6)
        /\ Goto(t, "b_ensemble")
        /\ UNCHANGED <<vectorstore, ensemble_retriever, documents, embeddings,
                       lastOp, upload_resp>>
     \/ /\ RebuildRaises(t)
        /\ UNCHANGED index
  /\ UNCHANGED <<disk, docs, ret>>
  /\ UNCHANGED <<before, appvars, llmvars>>

\* rebuild, lines 65-73: self.vectorstore.as_retriever(...) and the ensemble,
\* both read from the fields; as_retriever on None raises.
RebuildEnsemble(t) ==
  /\ pc[t] = "b_ensemble" /\ CanRun(t)
  /\ IF vectorstore.some
     THEN /\ ensemble_retriever' = RebuildEnsembleOf(vectorstore, keyword_retriever)
          /\ Goto(t, "b_docs")
          /\ UNCHANGED <<vectorstore, keyword_retriever, documents, embeddings,
                         lastOp, upload_resp>>
     ELSE /\ RebuildRaises(t)
          /\ UNCHANGED index
  /\ UNCHANGED <<disk, docs, ret>>
  /\ UNCHANGED <<before, appvars, llmvars>>

\* rebuild, line 74: self.documents = docs
RebuildDocs(t) ==
  /\ pc[t] = "b_docs" /\ CanRun(t)
  /\ documents' = docs[t]
  /\ RebuildReturns(t)
  /\ UNCHANGED <<vectorstore, keyword_retriever, ensemble_retriever, embeddings,
                 disk, docs, ret>>
  /\ UNCHANGED <<before, appvars, llmvars>>

\* retrieve, lines 86-88: the readiness check.
RetrieveCheck(t) ==
  /\ pc[t] = "r_check" /\ CanRun(t)
  /\ IF has_documents
     THEN /\ Goto(t, "r_invoke")
          /\ ret' = [ret EXCEPT ![t] = [NoRet EXCEPT !.last = Earlier(t)]]
     ELSE /\ Goto(t, IF t = "client" THEN "idle" ELSE "q_raised")
          /\ ret' = [ret EXCEPT ![t] = [NoRet EXCEPT !.outcome = "NotReady",
                                                     !.last = Earlier(t)]]
  /\ UNCHANGED <<index, disk, docs, lastOp, upload_resp>>
  /\ UNCHANGED <<before, appvars, llmvars>>

\* retrieve, lines 91-139: self.ensemble_retriever.invoke(question) reads the
\* field again; on None it raises, and the query embedding is a network call
\* that may raise.
RetrieveInvoke(t) ==
  /\ pc[t] = "r_invoke" /\ CanRun(t)
  /\ \/ /\ ensemble_retriever.some
        /\ Goto(t, IF t = "client" THEN "idle" ELSE "q_retrieved")
        /\ ret' = [ret EXCEPT ![t] =
                     [@ EXCEPT !.outcome = "ok", !.from = ensemble_retriever,
                               !.results = RetrieveResults(ensemble_retriever)]]
     \/ /\ Goto(t, IF t = "client" THEN "idle" ELSE "q_raised")
        /\ ret' = [ret EXCEPT ![t] =
                     [@ EXCEPT !.outcome =
                        IF ensemble_retriever.some THEN "raise" ELSE "NoneRead"]]
  /\ UNCHANGED <<index, disk, docs, lastOp, upload_resp>>
  /\ UNCHANGED <<before, appvars, llmvars>>

\* ------------------------------------------- direct calls of the pipeline
ClientRebuild(D) ==
  /\ pc["client"] = "idle" /\ running = NoTask
  /\ docs' = [docs EXCEPT !["client"] = D]
  /\ before' = [before EXCEPT !["client"] = Held]
  /\ ret' = [ret EXCEPT !["client"] = NoRet]
  /\ Goto("client", "b_reset")
  /\ UNCHANGED <<index, disk, lastOp, upload_resp>>
  /\ UNCHANGED <<appvars, llmvars>>

ClientReset ==
  /\ pc["client"] = "idle" /\ running = NoTask
  /\ ResetFields
  /\ lastOp' = [op |-> "reset", ret |-> "ok"]
  /\ ret' = [ret EXCEPT !["client"] = NoRet]
  /\ docs' = [docs EXCEPT !["client"] = {}]
  /\ before' = [before EXCEPT !["client"] = Held]
  /\ UNCHANGED <<disk, running, pc, upload_resp>>
  /\ UNCHANGED <<appvars, llmvars>>

ClientRetrieve ==
  /\ pc["client"] = "idle" /\ running = NoTask
  /\ Goto("client", "r_check")
  /\ UNCHANGED <<index, disk, docs, lastOp, ret, upload_resp>>
  /\ UNCHANGED <<before, appvars, llmvars>>

\* save_vectorstore(path)
ClientSave ==
  /\ pc["client"] = "idle" /\ running = NoTask
  /\ vectorstore.some
  /\ disk' = vectorstore
  /\ UNCHANGED <<index, running, pc, docs, lastOp, ret, upload_resp>>
  /\ UNCHANGED <<before, appvars, llmvars>>

\* load_vectorstore(path)
ClientLoad ==
  /\ pc["client"] = "idle" /\ running = NoTask
  /\ disk.some
  /\ vectorstore' = disk
  /\ ensemble_retriever' =
       IF documents # {} THEN LoadEnsembleOf(disk, documents)
       ELSE ensemble_retriever
  /\ lastOp' = [op |-> "load", ret |-> "ok"]
  /\ ret' = [ret EXCEPT !["client"] = NoRet]
  /\ UNCHANGED <<keyword_retriever, documents, embeddings, disk, running, pc,
                 docs, upload_resp>>
  /\ UNCHANGED <<before, appvars, llmvars>>


\* ------------------------------------------------------------- LLMService
\* What one invoke meets outside the service: whether the probe of the
\* primary, the real call on the primary and the real call on the backup
\* succeed, and whether the constructors succeed should setup_llm run again.
LLMEnv ==
  [probeOk : BOOLEAN, primaryOk : BOOLEAN, backupOk : BOOLEAN,
   primaryInit : BOOLEAN, backupInit : BOOLEAN]

\* the `llm` property, line 61: setup_llm runs again only when both handles
\* are missing. The handles after that, as <<primary, backup>>.
\* A setup that runs again when either handle is missing.
NeedsSetupEither(p, b) == ~p \/ ~b
NeedsSetup(p, b) == ~p /\ ~b
HandlesAfterSetup(p, b, e) ==
  IF NeedsSetup(p, b) THEN <<e.primaryInit, e.backupInit>> ELSE <<p, b>>

\* the `llm` property, lines 64-77: the primary when it exists and answers the
\* probe, else the backup when it exists, else RuntimeError.
\* A selection without the probe.
SelectLLMSticky(p, b, probeOk) ==
  IF p THEN "primary" ELSE IF b THEN "backup" ELSE "none"
SelectLLM(p, b, probeOk) ==
  IF p /\ probeOk THEN "primary"
  ELSE IF b THEN "backup"
  ELSE "none"

\* the `llm` property, lines 65-71: a probe that raises is logged; both
\* handles stay as they are.
\* A service that drops the primary once its probe has failed.
HandlesAfterProbeCached(p, b, probeOk) == <<p /\ probeOk, b>>
HandlesAfterProbe(p, b, probeOk) == <<p, b>>

\* invoke, lines 94-116: one real call on the selected backend; whatever it
\* raises is logged and raised again.
\* A call that is tried again on the backup when the primary raises.
CallLLMRetry(served, e) ==
  CASE served = "primary" ->
         IF e.primaryOk \/ e.backupOk THEN "text" ELSE "raise"
    [] served = "backup" -> IF e.backupOk THEN "text" ELSE "raise"
    [] OTHER -> "raise"
CallLLM(served, e) ==
  CASE served = "primary" -> IF e.primaryOk THEN "text" ELSE "raise"
    [] served = "backup" -> IF e.backupOk THEN "text" ELSE "raise"
    [] OTHER -> "raise"

\* llm_service.invoke(prompt) as its callers see it: "text" or "raise".
Invoke(p, b, e) ==
  LET h == HandlesAfterSetup(p, b, e)
  IN CallLLM(SelectLLM(h[1], h[2], e.probeOk), e)

\* The environments that differ for a service with handles p and b: the
\* constructors matter only when setup_llm runs again.
LLMEnvFor(p, b) ==
  {e \in LLMEnv : NeedsSetup(p, b) \/ (~e.primaryInit /\ ~e.backupInit)}

\* What an invoke can come to, over every environment: its result, and the
\* handles setup_llm may have replaced.
OracleOutcomes ==
  {[result |-> Invoke(primary_llm, backup_llm, e),
    handles |-> HandlesAfterSetup(primary_llm, backup_llm, e)] :
     e \in LLMEnvFor(primary_llm, backup_llm)}

\* A caller's invoke with outcome o.
Oracle(o, result) ==
  /\ result = o.result
  /\ primary_llm' = o.handles[1]
  /\ backup_llm' = o.handles[2]
  /\ UNCHANGED <<llm_call, tracing>>

\* The same invoke step by step, as a direct caller of the service runs it.
LLMInvokeStart(e) ==
  /\ llm_call.pc \in {"idle", "done"}
  /\ llm_call' = [NoCall EXCEPT !.pc = "select", !.probeOk = e.probeOk,
                    !.primaryOk = e.primaryOk, !.backupOk = e.backupOk,
                    !.setup = NeedsSetup(primary_llm, backup_llm),
                    !.failed = llm_call.failed]
  /\ primary_llm' = HandlesAfterSetup(primary_llm, backup_llm, e)[1]
  /\ backup_llm' = HandlesAfterSetup(primary_llm, backup_llm, e)[2]

LLMSelect ==
  /\ llm_call.pc = "select"
  /\ llm_call' = [llm_call EXCEPT
                    !.pc = "call",
                    !.probed = primary_llm,
                    !.served = SelectLLM(primary_llm, backup_llm, llm_call.probeOk),
                    !.failed = IF primary_llm /\ ~llm_call.probeOk /\ @ < MaxProbeFails
                               THEN @ + 1 ELSE @]
  /\ primary_llm' = HandlesAfterProbe(primary_llm, backup_llm, llm_call.probeOk)[1]
  /\ backup_llm' = HandlesAfterProbe(primary_llm, backup_llm, llm_call.probeOk)[2]

LLMCall ==
  /\ llm_call.pc = "call"
  /\ llm_call' = [llm_call EXCEPT
                    !.pc = "done",
                    !.result = CallLLM(llm_call.served, llm_call)]
  /\ UNCHANGED <<primary_llm, backup_llm>>

notllm == <<vectorstore, keyword_retriever, ensemble_retriever, documents,
            embeddings, disk, running, pc, docs, lastOp, ret, before,
            upload_resp, qs, query_resp, conversations, tracing>>

NextLLM ==
  \/ \E e \in LLMEnvFor(primary_llm, backup_llm) : LLMInvokeStart(e) /\ UNCHANGED notllm
  \/ LLMSelect /\ UNCHANGED notllm
  \/ LLMCall /\ UNCHANGED notllm

SpecLLM == InitLLM /\ [][NextLLM]_vars

\* ----------------------------------------------------------- MemoryService
\* An add_message on one list that all threads share.
add_message_shared(conv, thread_id, message) ==
  [t \in DOMAIN conv |->
     [present |-> TRUE, messages |-> Append(conv[t].messages, message)]]
\* An add_message that puts the message in front.
add_message_front(conv, thread_id, message) ==
  [conv EXCEPT ![thread_id] =
     [present |-> TRUE, messages |-> <<message>> \o @.messages]]
add_message(conv, thread_id, message) ==
  [conv EXCEPT ![thread_id] =
     [present |-> TRUE, messages |-> Append(@.messages, message)]]

\* The argument last_k: <<>> is None (the default), <<k>> is the integer k.
NoLastK == <<>>
LastKs == {NoLastK} \cup {<<k>> : k \in 0..(MaxMsgs + 1)}

\* get_messages(thread_id, last_k): `if last_k:` skips the slice for None
\* and for 0; messages[-last_k:] is the last last_k messages.
get_messages(conv, thread_id, last_k) ==
  LET messages == conv[thread_id].messages
      n == Len(messages)
  IN IF last_k = NoLastK \/ last_k[1] = 0 THEN messages
     ELSE IF last_k[1] >= n THEN messages
     ELSE SubSeq(messages, n - last_k[1] + 1, n)

\* A clear_thread that empties the list and keeps the key.
clear_thread_keep_key(conv, thread_id) ==
  [conv EXCEPT ![thread_id] = [present |-> @.present, messages |-> <<>>]]
clear_thread(conv, thread_id) == [conv EXCEPT ![thread_id] = Absent]

thread_exists(conv, thread_id) == conv[thread_id].present

HumanMessage(content) == [type |-> "human", content |-> content]
AIMessage(content) == [type |-> "ai", content |-> content]


\* -------------------------------------------------- sorting, as list.sort
\* list.sort(key=grade, reverse=True) and sorted(..., reverse=True): a stable
\* sort, largest key first; equal keys keep their order.
RECURSIVE InsertDesc(_, _, _)
InsertDesc(order, i, keys) ==
  IF order = <<>> THEN <<i>>
  ELSE IF keys[Head(order)] >= keys[i]
       THEN <<Head(order)>> \o InsertDesc(Tail(order), i, keys)
       ELSE <<i>> \o order

\* The order of the indices of keys after the sort.
RECURSIVE SortedOrder(_, _)
SortedOrder(keys, n) ==
  IF n = 0 THEN <<>>
  ELSE InsertDesc(SortedOrder(keys, n - 1), n, keys)

SortDesc(seq, keys) ==
  LET order == SortedOrder(keys, Len(seq))
  IN [j \in 1..Len(seq) |-> seq[order[j]]]

\* ------------------------------------------------------------ GraphService
\* What the oracle may return to a grade prompt: a text float() parses, with
\* its value, or one it does not.
GradeTexts ==
  {[parses |-> FALSE, value |-> 0]} \cup
  {[parses |-> TRUE, value |-> v] : v \in {3, 5, 15}}

\* grade_documents, lines 85-96: float(response.strip()), and the chunk's own
\* score when that raises.
\* A parse failure that grades the chunk 0.
ParseGradeZero(text, doc) == IF text.parses THEN text.value ELSE 0
ParseGrade(text, doc) == IF text.parses THEN text.value ELSE doc.score

GradedDoc(doc, grade) ==
  [content |-> doc.content, source |-> doc.source, grade |-> grade,
   original_score |-> doc.score]

\* grade_documents, lines 104-110: the except branch grades every document
\* of the state with its own score (and keeps the score under `score`).
\* An except branch that leaves no graded document.
GradeExceptNone(documents_) == <<>>
GradeExcept(documents_) ==
  [j \in 1..Len(documents_) |->
     [content |-> documents_[j].content, source |-> documents_[j].source,
      score |-> documents_[j].score, grade |-> documents_[j].score]]

\* grade_documents, line 99: graded_docs.sort(key grade, reverse=True)
\* A grading that leaves the list in the order of the calls.
SortGradedNone(graded) == graded
SortGraded(graded) ==
  SortDesc(graded, [j \in 1..Len(graded) |-> graded[j].grade])

\* generate_answer, lines 116-122: the chunks graded above 0.5, or the first
\* two when there is none.
\* A selection that takes a grade of 0.5 as well.
IsRelevantAtLeast(doc) == doc.grade >= 5
IsRelevant(doc) == doc.grade > 5
\* A selection without the first-two rule of lines 121-122.
SelectRelevantOnly(graded) == SelectSeq(graded, IsRelevant)
SelectRelevant(graded) ==
  LET relevant == SelectSeq(graded, IsRelevant)
  IN IF relevant = <<>>
     THEN SubSeq(graded, 1, IF Len(graded) < 2 THEN Len(graded) ELSE 2)
     ELSE relevant

\* ------------------------------------------------------------ query_router
\* source.split('/')[-1]: the path of one component that is the last
\* component of the given path.
Basename(path) == <<path[Len(path)]>>

\* doc["content"][:500]
SnippetLen == 500
\* A reference that carries the whole content.
SnippetWhole(content) == content
Snippet(content) == Slice(content, SnippetLen)

\* query, lines 225-234 and 245: one reference per relevant document, sorted
\* by relevance_score, largest first.
MainReferences(relevant_docs) ==
  LET refs == [j \in 1..Len(relevant_docs) |->
                 [source |-> Basename(relevant_docs[j].source),
                  relevance_score |-> relevant_docs[j].grade,
                  snippet |-> Snippet(relevant_docs[j].content)]]
  IN SortDesc(refs, [j \in 1..Len(refs) |-> refs[j].relevance_score])

\* handle_research_fallback, lines 278-285: one reference per retrieved
\* document, in retrieval order.
\* References of the degraded answer taken from the graded documents.
FallbackReferencesGraded(docs_, graded) ==
  [j \in 1..Len(graded) |->
     [source |-> Basename(graded[j].source), relevance_score |-> graded[j].grade,
      snippet |-> Snippet(graded[j].content)]]
FallbackReferences(docs_, graded) ==
  [j \in 1..Len(docs_) |->
     [source |-> Basename(docs_[j].source), relevance_score |-> docs_[j].score,
      snippet |-> Snippet(docs_[j].content)]]

Logged(op, question, ok) == [op |-> op, q |-> question, ok |-> ok]

InFlight(t) == pc[t] \notin {"idle", "done"}
RebuildPcs == {"b_reset", "b_embed", "b_keyword", "b_ensemble", "b_docs"}

\* The record a query keeps of the index writes it overlaps: overlaps is 1
\* while the only one is a single rebuild that was called on a ready index
\* (over holds the documents held then and the documents given), and 2 once
\* anything else has written the index.
Overlap(n, over, rebuilding, held, D) ==
  IF ~rebuilding THEN <<n, over>>
  ELSE IF n = 0 /\ held.ready THEN <<1, [old |-> held.snap, new |-> D]>>
  ELSE <<2, NoOver>>

\* The thread a request is answered on: thread_id = request.thread_id or uuid4()
\* A handler that makes a new thread id for every request.
ThreadOfNew(request_thread) == "u1"
ThreadOf(request_thread) == IF request_thread = "none" THEN "u1" ELSE request_thread

\* A query request is sent; it waits for the event loop.
QuerySubmit(request_thread) ==
  /\ pc["query"] = "idle" /\ running = NoTask
  /\ Len(conversations[ThreadOf(request_thread)].messages) + 2 <= MaxMsgs
  /\ pc' = [pc EXCEPT !["query"] = "q_queued"]
  /\ qs' = [NoQuery EXCEPT
              !.question = "q",
              !.thread_id = request_thread,
              !.request_thread_id = request_thread,
              !.overlaps = Overlap(0, NoOver, pc["upload"] \in RebuildPcs,
                                   before["upload"], docs["upload"])[1],
              !.over = Overlap(0, NoOver, pc["upload"] \in RebuildPcs,
                               before["upload"], docs["upload"])[2]]
  /\ UNCHANGED <<index, disk, running, docs, lastOp, ret, before, upload_resp,
                 query_resp, conversations, llmvars>>

Respond(status, answer, references) ==
  /\ query_resp' = [status |-> status, answer |-> answer,
                    references |-> references, thread_id |-> qs.thread_id]
  /\ Goto("query", "done")

\* query, lines 157-183: the thread id, then router_chain.invoke, which may
\* raise (status 400) or classify the question.
QueryRoute ==
  /\ pc["query"] = "q_queued" /\ running = NoTask
  /\ \E route \in {"raise", "memory", "general", "vectorstore"} :
       /\ qs' = [qs EXCEPT !.thread_id = ThreadOf(@), !.route = route,
                           !.thread0 = conversations[ThreadOf(qs.thread_id)].messages]
       /\ IF route = "raise"
          THEN /\ query_resp' = [NoResp EXCEPT !.status = 400]
               /\ Goto("query", "done")
          ELSE /\ Goto("query", CASE route = "memory" -> "q_memory"
                                  [] route = "general" -> "q_general"
                                  [] OTHER -> "q_hasdocs")
               /\ UNCHANGED query_resp
  /\ UNCHANGED <<index, disk, docs, lastOp, ret, before, upload_resp,
                 conversations, llmvars>>

\* What a handler that got its answer appends: the question, then the answer.
\* A handler that appends the answer alone.
RememberAnswerOnly(answer) ==
  conversations' = add_message(conversations, qs.thread_id, AIMessage(answer))
Remember(answer) ==
  conversations' =
    add_message(add_message(conversations, qs.thread_id, HumanMessage(qs.question)),
                qs.thread_id, AIMessage(answer))

\* handle_memory_question: memory_chain.invoke (the router's own model) over
\* the thread's history; an exception becomes status 400.
QueryMemory ==
  /\ pc["query"] = "q_memory" /\ CanRun("query")
  /\ \/ /\ Remember("text")
        /\ Respond(200, "text", <<>>)
     \/ /\ query_resp' = [NoResp EXCEPT !.status = 400]
        /\ Goto("query", "done")
        /\ UNCHANGED conversations
  /\ qs' = [qs EXCEPT !.via = "memory"]
  /\ UNCHANGED <<index, disk, docs, lastOp, ret, before, upload_resp, llmvars>>

\* handle_general_question: llm_service.invoke(question).
QueryGeneral ==
  /\ pc["query"] = "q_general" /\ CanRun("query")
  /\ \E e \in OracleOutcomes, r \in {"text", "raise"} :
       /\ Oracle(e, r)
       /\ IF r = "text"
          THEN Remember("text") /\ Respond(200, "text", <<>>)
          ELSE /\ query_resp' = [NoResp EXCEPT !.status = 400]
               /\ Goto("query", "done")
               /\ UNCHANGED conversations
  /\ qs' = [qs EXCEPT !.via = "general"]
  /\ UNCHANGED <<index, disk, docs, lastOp, ret, before, upload_resp>>

\* query, lines 184-189: no documents, so the notice and nothing else.
\* A handler without the has_documents test of line 184.
QueryHasDocumentsSkip ==
  /\ pc["query"] = "q_hasdocs" /\ CanRun("query")
  /\ qs' = [qs EXCEPT !.hd = "unchecked"]
  /\ Goto("query", "r_check")
  /\ UNCHANGED <<index, disk, docs, lastOp, ret, before, upload_resp,
                 query_resp, conversations, llmvars>>
QueryHasDocuments ==
  /\ pc["query"] = "q_hasdocs" /\ CanRun("query")
  /\ IF has_documents
     THEN /\ qs' = [qs EXCEPT !.hd = "ready"]
          /\ Goto("query", "r_check")
          /\ UNCHANGED query_resp
     ELSE /\ qs' = [qs EXCEPT !.hd = "NotReady", !.via = "notice"]
          /\ Respond(200, "no_documents", <<>>)
  /\ UNCHANGED <<index, disk, docs, lastOp, ret, before, upload_resp,
                 conversations, llmvars>>

\* query, lines 254-256: whatever retrieve raised becomes status 400.
QueryRaised ==
  /\ pc["query"] = "q_raised" /\ CanRun("query")
  /\ qs' = [qs EXCEPT !.via = "error",
                      !.log = Append(@, Logged("retrieve", qs.question, FALSE))]
  /\ query_resp' = [NoResp EXCEPT !.status = 400]
  /\ Goto("query", "done")
  /\ UNCHANGED <<index, disk, docs, lastOp, ret, before, upload_resp,
                 conversations, llmvars>>

\* query, lines 203-218: retrieve was called with request.question; nothing
\* retrieved ends in the second notice.
QueryRetrieved ==
  /\ pc["query"] = "q_retrieved" /\ CanRun("query")
  /\ IF ret["query"].results = <<>>
     THEN /\ qs' = [qs EXCEPT !.via = "notice",
                      !.log = Append(@, Logged("retrieve", qs.question, TRUE))]
          /\ Respond(200, "no_relevant_information", <<>>)
     ELSE /\ qs' = [qs EXCEPT !.documents = ret["query"].results,
                      !.log = Append(@, Logged("retrieve", qs.question, TRUE))]
          /\ Goto("query", "g_rewrite")
          /\ UNCHANGED query_resp
  /\ UNCHANGED <<index, disk, docs, lastOp, ret, before, upload_resp,
                 conversations, llmvars>>

\* What the oracle may return to the rewrite prompt: a restated question in
\* quotes, nothing but quotes and blanks, or a text that is no question.
RewriteReplies == {"quoted_rq", "blank", "chatter"}

\* rewrite_question, line 53: rewritten.strip().strip('"').strip()
CleanReply(reply) ==
  CASE reply = "quoted_rq" -> "rq"
    [] reply = "blank" -> ""
    [] OTHER -> reply

\* grade_documents, line 68: state["rewritten_question"] or state["question"]
GradeQuestion(state) ==
  IF state.rewritten_question = "" THEN state.question
  ELSE state.rewritten_question

\* rewrite_question: one oracle call; the stripped reply, or the question
\* itself when the call raises.
GraphRewrite ==
  /\ pc["query"] = "g_rewrite" /\ CanRun("query")
  /\ \E e \in OracleOutcomes, r \in {"text", "raise"} :
       /\ Oracle(e, r)
       /\ \E reply \in IF r = "text" THEN RewriteReplies ELSE {"none"} :
            qs' = [qs EXCEPT
                     !.rewritten_question =
                        IF r = "text" THEN CleanReply(reply) ELSE qs.question,
                     !.reply = reply,
                     !.i = 1,
                     !.log = Append(@, Logged("rewrite", qs.question, r = "text"))]
  /\ Goto("query", "g_grade")
  /\ UNCHANGED <<index, disk, docs, lastOp, ret, before, upload_resp,
                 query_resp, conversations>>

\* grade_documents, lines 68-102: one oracle call for document i, asked with
\* the rewritten question; after the last one the list is sorted. A call that
\* raises ends the loop in the except branch.
\* A loop that stays on the document it has just graded.
NextDocSame(i) == i
\* The for loop over state["documents"] goes on to the next document.
NextDoc(i) == i + 1
GraphGrade ==
  /\ pc["query"] = "g_grade" /\ CanRun("query")
  /\ LET doc == qs.documents[qs.i]
         last == qs.i = Len(qs.documents)
     IN \E e \in OracleOutcomes, r \in {"text", "raise"} :
          /\ Oracle(e, r)
          /\ \/ /\ r = "text"
                /\ \E text \in GradeTexts :
                     LET graded == Append(qs.graded_docs,
                                          GradedDoc(doc, ParseGrade(text, doc)))
                     IN qs' = [qs EXCEPT
                                 !.graded_docs =
                                    IF last THEN SortGraded(graded) ELSE graded,
                                 !.i = IF last THEN 0 ELSE NextDoc(@),
                                 !.unparsed = IF text.parses THEN @
                                              ELSE @ \cup {doc.source},
                                 !.log = Append(@, Logged("grade",
                                            GradeQuestion(qs), TRUE))]
                /\ Goto("query", IF last THEN "g_generate" ELSE "g_grade")
             \/ /\ r = "raise"
                /\ qs' = [qs EXCEPT
                            !.graded_docs = GradeExcept(qs.documents),
                            !.i = 0,
                            !.log = Append(@, Logged("grade",
                                       GradeQuestion(qs), FALSE))]
                /\ Goto("query", "g_generate")
  /\ UNCHANGED <<index, disk, docs, lastOp, ret, before, upload_resp,
                 query_resp, conversations>>

\* generate_answer: select, then one oracle call asked with the original
\* question; a call that raises leaves process_state by the exception.
GraphGenerate ==
  /\ pc["query"] = "g_generate" /\ CanRun("query")
  /\ \E e \in OracleOutcomes, r \in {"text", "raise"} :
       /\ Oracle(e, r)
       /\ IF r = "text"
          THEN /\ qs' = [qs EXCEPT
                           !.relevant_docs = SelectRelevant(qs.graded_docs),
                           !.answer = "text",
                           !.log = Append(@, Logged("synth", qs.question, TRUE))]
               /\ Goto("query", "q_format")
          ELSE /\ qs' = [qs EXCEPT
                           !.log = Append(@, Logged("synth", qs.question, FALSE))]
               /\ Goto("query", "q_fallback")
  /\ UNCHANGED <<index, disk, docs, lastOp, ret, before, upload_resp,
                 query_resp, conversations>>

\* query, lines 224-247: the references, the two messages, the response.
QueryFormat ==
  /\ pc["query"] = "q_format" /\ CanRun("query")
  /\ qs' = [qs EXCEPT !.via = "main"]
  /\ Remember(qs.answer)
  /\ Respond(200, qs.answer, MainReferences(qs.relevant_docs))
  /\ UNCHANGED <<index, disk, docs, lastOp, ret, before, upload_resp, llmvars>>

\* handle_research_fallback: one oracle call over every retrieved document
\* with the original question; when it raises, query's handlers turn the
\* exception into status 400 (lines 254-260).
\* A fallback that records the exchange before the oracle has answered.
FallbackAppendsAlways(ok) == TRUE
FallbackAppends(ok) == ok
\* A fallback that answers with status 200 whatever the oracle did.
FallbackStatusAlwaysOk(ok) == 200
FallbackStatus(ok) == IF ok THEN 200 ELSE 400
QueryFallback ==
  /\ pc["query"] = "q_fallback" /\ CanRun("query")
  /\ \E e \in OracleOutcomes, r \in {"text", "raise"} :
       /\ Oracle(e, r)
       /\ qs' = [qs EXCEPT
                   !.via = "fallback",
                   !.answer = IF r = "text" THEN "text" ELSE @,
                   !.log = Append(@, Logged("fallback", qs.question, r = "text"))]
       /\ IF FallbackAppends(r = "text") THEN Remember("text")
          ELSE UNCHANGED conversations
       /\ IF FallbackStatus(r = "text") = 200
          THEN Respond(200, IF r = "text" THEN "text" ELSE qs.answer,
                       FallbackReferences(qs.documents, qs.graded_docs))
          ELSE /\ query_resp' = [NoResp EXCEPT !.status = 400]
               /\ Goto("query", "done")
  /\ UNCHANGED <<index, disk, docs, lastOp, ret, before, upload_resp>>

\* The response has gone out; the handler's locals are dropped.
QueryReturn ==
  /\ pc["query"] = "done" /\ CanRun("query")
  /\ Goto("query", "idle")
  /\ qs' = NoQuery
  /\ query_resp' = NoResp
  /\ ret' = [ret EXCEPT !["query"] = NoRet]
  /\ UNCHANGED <<index, disk, docs, lastOp, before, upload_resp,
                 conversations, llmvars>>

\* A rebuild is called or a reset runs while a query is in flight.
NoteRebuild(D) ==
  qs' = IF InFlight("query")
        THEN [qs EXCEPT !.overlaps = Overlap(qs.overlaps, qs.over, TRUE, Held, D)[1],
                        !.over = Overlap(qs.overlaps, qs.over, TRUE, Held, D)[2]]
        ELSE qs
NoteReset ==
  qs' = IF InFlight("query")
        THEN [qs EXCEPT !.overlaps = 2, !.over = NoOver]
        ELSE qs

\* --------------------------------------------------------------- docs_router
\* upload_documents is sent with some files: all_docs is what extraction will
\* yield; a file that yields nothing is a failed one, so all_docs is empty
\* exactly when every file failed. With no file at all the handler
\* raises HTTPException(400) inside its own try, whose `except Exception`
\* turns it into status 500.
UploadSubmit(all_docs, nofiles) ==
  /\ pc["upload"] = "idle" /\ running = NoTask
  /\ IF nofiles
     THEN /\ all_docs = {}
          /\ upload_resp' = [NoUploadResp EXCEPT !.status = 500]
          /\ Goto("upload", "done")
          /\ UNCHANGED docs
     ELSE /\ upload_resp' = NoUploadResp
          /\ docs' = [docs EXCEPT !["upload"] = all_docs]
          /\ Goto("upload", "u_await")
  /\ UNCHANGED <<index, disk, lastOp, ret, before, appvars, llmvars>>

\* upload_documents, lines 30-62: after the awaits, rebuild when some file
\* yielded content.
UploadResume ==
  /\ pc["upload"] = "u_await" /\ running = NoTask
  /\ IF docs["upload"] # {}
     THEN /\ before' = [before EXCEPT !["upload"] = Held]
          /\ NoteRebuild(docs["upload"])
          /\ Goto("upload", "b_reset")
     ELSE /\ Goto("upload", "u_respond")
          /\ UNCHANGED <<before, qs>>
  /\ UNCHANGED <<index, disk, docs, lastOp, ret, upload_resp, query_resp,
                 conversations, llmvars>>

\* upload_documents, lines 63-78: the response; when every file failed, the
\* HTTPException(400) of line 72 is caught by line 76 and becomes status 500.
UploadStatus(all_docs) == IF all_docs = {} THEN 500 ELSE 200
UploadRespond ==
  /\ pc["upload"] = "u_respond" /\ CanRun("upload")
  /\ upload_resp' = [upload_resp EXCEPT
                       !.status = UploadStatus(docs["upload"]),
                       !.rebuilt = docs["upload"] # {}]
  /\ Goto("upload", "done")
  /\ UNCHANGED <<index, disk, docs, lastOp, ret, before, appvars, llmvars>>

UploadReturn ==
  /\ pc["upload"] = "done" /\ CanRun("upload")
  /\ Goto("upload", "idle")
  /\ upload_resp' = NoUploadResp
  /\ docs' = [docs EXCEPT !["upload"] = {}]
  /\ before' = [before EXCEPT !["upload"] = NoHeld]
  /\ UNCHANGED <<index, disk, lastOp, ret, appvars, llmvars>>

\* reset_vectordb: retrieval_pipeline.reset()
ResetVectordb ==
  /\ running = NoTask
  /\ ResetFields
  /\ NoteReset
  /\ UNCHANGED <<disk, running, pc, docs, lastOp, ret, before, upload_resp,
                 query_resp, conversations, llmvars>>

\* reset_thread: 404 for a thread that does not exist, else clear_thread.
ResetThread(thread_id) ==
  /\ running = NoTask
  /\ thread_exists(conversations, thread_id)
  /\ conversations' = clear_thread(conversations, thread_id)
  /\ UNCHANGED <<index, disk, running, pc, docs, lastOp, ret, before,
                 upload_resp, qs, query_resp, llmvars>>

Next ==
  \/ \E D \in DocSets, nofiles \in BOOLEAN : UploadSubmit(D, nofiles)
  \/ UploadResume
  \/ RebuildReset("upload")
  \/ RebuildEmbed("upload")
  \/ RebuildKeyword("upload")
  \/ RebuildEnsemble("upload")
  \/ RebuildDocs("upload")
  \/ UploadRespond
  \/ UploadReturn
  \/ ResetVectordb
  \/ \E t \in ThreadIds : ResetThread(t)
  \/ \E t \in {"none", "t1"} : QuerySubmit(t)
  \/ QueryRoute
  \/ QueryMemory
  \/ QueryGeneral
  \/ QueryHasDocuments
  \/ RetrieveCheck("query")
  \/ RetrieveInvoke("query")
  \/ QueryRaised
  \/ QueryRetrieved
  \/ GraphRewrite
  \/ GraphGrade
  \/ GraphGenerate
  \/ QueryFormat
  \/ QueryFallback
  \/ QueryReturn

Spec == Init /\ [][Next]_vars

NextAPI ==
  \/ \E D \in DocSets : ClientRebuild(D)
  \/ ClientReset
  \/ ClientRetrieve
  \/ ClientSave
  \/ ClientLoad
  \/ RebuildReset("client")
  \/ RebuildEmbed("client")
  \/ RebuildKeyword("client")
  \/ RebuildEnsemble("client")
  \/ RebuildDocs("client")
  \/ RetrieveCheck("client")
  \/ RetrieveInvoke("client")

SpecAPI == Init /\ [][NextAPI]_vars

\* ------------------------------------------ MemoryService, called on its own
\* A caller of MemoryService (as the unit tests are). lastOp is its last
\* call, with what the call returned and, per thread, the messages the caller
\* has appended since the thread was last cleared.
Messages == {HumanMessage("a"), AIMessage("b")}

InitMem ==
  /\ InitShared
  /\ primary_llm = TRUE /\ backup_llm = TRUE
  /\ running = NoTask
  /\ pc = [t \in Tasks |-> "idle"]
  /\ qs = NoQuery
  /\ lastOp = [op |-> "init", thread |-> "none", k |-> NoLastK, ret |-> "ok",
               appended |-> [t \in ThreadIds |-> <<>>], had |-> <<>>]

notmem == <<index, disk, running, pc, docs, ret, before, upload_resp, qs,
            query_resp, llmvars>>

MemAdd(thread_id, message) ==
  /\ Len(conversations[thread_id].messages) < MaxMsgs
  /\ conversations' = add_message(conversations, thread_id, message)
  /\ lastOp' = [lastOp EXCEPT
                  !.op = "add_message", !.thread = thread_id, !.had = <<>>, !.k = NoLastK,
                  !.ret = "ok",
                  !.appended = [@ EXCEPT ![thread_id] = Append(@, message)]]
  /\ UNCHANGED notmem

MemGet(thread_id, last_k) ==
  /\ lastOp' = [lastOp EXCEPT
                  !.op = "get_messages", !.thread = thread_id, !.had = <<>>, !.k = last_k,
                  !.ret = get_messages(conversations, thread_id, last_k)]
  /\ UNCHANGED <<conversations, notmem>>

MemClear(thread_id) ==
  /\ conversations' = clear_thread(conversations, thread_id)
  /\ lastOp' = [lastOp EXCEPT
                  !.op = "clear_thread", !.thread = thread_id, !.had = <<>>, !.k = NoLastK,
                  !.ret = "ok",
                  !.appended = [@ EXCEPT ![thread_id] = <<>>]]
  /\ UNCHANGED notmem

MemExists(thread_id) ==
  /\ lastOp' = [lastOp EXCEPT
                  !.op = "thread_exists", !.thread = thread_id, !.had = <<>>, !.k = NoLastK,
                  !.ret = thread_exists(conversations, thread_id)]
  /\ UNCHANGED <<conversations, notmem>>

\* reset_thread: HTTPException(404) for a thread that does not exist, passed
\* on by `except HTTPException: raise`; else clear_thread and the success
\* response.
\* A handler that does not look whether the thread exists.
ResetThreadStatusAlways(conv, thread_id) == 200
ResetThreadStatus(conv, thread_id) ==
  IF thread_exists(conv, thread_id) THEN 200 ELSE 404

\* POST /api/thread/reset, seen by its caller; had is what the thread held.
MemResetThread(thread_id) ==
  LET status == ResetThreadStatus(conversations, thread_id)
  IN /\ conversations' = IF status = 200
                         THEN clear_thread(conversations, thread_id)
                         ELSE conversations
     /\ lastOp' = [lastOp EXCEPT
                     !.op = "reset_thread", !.thread = thread_id,
                     !.k = NoLastK, !.ret = status,
                     !.had = conversations[thread_id].messages,
                     !.appended = IF status = 200
                                  THEN [@ EXCEPT ![thread_id] = <<>>] ELSE @]
     /\ UNCHANGED notmem

\* get_thread_status: the thread's messages through get_messages, counted
\* and listed by type and content.
\* A handler that answers 404 for a thread that does not exist.
ThreadStatusOrNotFound(conv, thread_id) ==
  LET messages == get_messages(conv, thread_id, NoLastK)
  IN [status |-> IF thread_exists(conv, thread_id) THEN 200 ELSE 404,
      thread_id |-> thread_id,
      message_count |-> Len(messages),
      has_history |-> Len(messages) > 0,
      messages |-> messages]
ThreadStatus(conv, thread_id) ==
  LET messages == get_messages(conv, thread_id, NoLastK)
  IN [status |-> 200,
      thread_id |-> thread_id,
      message_count |-> Len(messages),
      has_history |-> Len(messages) > 0,
      messages |-> [j \in 1..Len(messages) |->
                      [type |-> messages[j].type,
                       content |-> messages[j].content]]]

\* GET /api/thread/status/{thread_id}, seen by its caller.
MemThreadStatus(thread_id) ==
  /\ lastOp' = [lastOp EXCEPT
                  !.op = "thread_status", !.thread = thread_id, !.had = <<>>,
                  !.k = NoLastK,
                  !.ret = ThreadStatus(conversations, thread_id)]
  /\ UNCHANGED <<conversations, notmem>>

NextMem ==
  \/ \E t \in ThreadIds : MemResetThread(t)
  \/ \E t \in ThreadIds : MemThreadStatus(t)
  \/ \E t \in ThreadIds, m \in Messages : MemAdd(t, m)
  \/ \E t \in ThreadIds, k \in LastKs : MemGet(t, k)
  \/ \E t \in ThreadIds : MemClear(t)
  \/ \E t \in ThreadIds : MemExists(t)

SpecMem == InitMem /\ [][NextMem]_vars

\* ------------------------------------------ process_state, called on its own
\* graph_service.process_state(state) on a state as query builds it: the
\* question, and the chunks retrieve returned (each with score 1.0).
ChunksOf(n) ==
  [d \in 1..n |-> [content |-> Content(d), source |-> Source(d), score |-> 10]]

InitGraph ==
  /\ InitShared
  /\ lastOp = [op |-> "init", ret |-> "ok"]
  /\ primary_llm = TRUE /\ backup_llm = TRUE
  /\ running = "query"
  /\ pc = [t \in Tasks |-> IF t = "query" THEN "g_rewrite" ELSE "idle"]
  /\ \E n \in 1..MaxChunks :
       qs = [NoQuery EXCEPT !.question = "q", !.thread_id = "t1",
                            !.route = "vectorstore", !.hd = "ready",
                            !.documents = ChunksOf(n)]

NextGraph ==
  \/ GraphRewrite
  \/ GraphGrade
  \/ GraphGenerate

SpecGraph == InitGraph /\ [][NextGraph]_vars

\* ------------------------------------------------------- TracingService
\* The module and its methods as a direct caller sees them. lastOp holds the
\* last call: which library call in it raised (fail), what the body of a
\* `with trace_interaction(...)` block did, what the call gave its caller
\* (ret) and what the context manager yielded (got).
InitTrace ==
  /\ InitServices
  /\ tracing = NoTracing
  /\ primary_llm = TRUE /\ backup_llm = TRUE
  /\ running = NoTask
  /\ pc = [t \in Tasks |-> "idle"]
  /\ qs = NoQuery
  /\ lastOp = [op |-> "none", fail |-> "none", body |-> "none", ret |-> "ok",
               got |-> "none"]

nottrace == <<index, disk, running, pc, docs, ret, before, upload_resp, qs,
              query_resp, conversations, primary_llm, backup_llm, llm_call>>

\* logger.error, once for each exception a method catches.
LogErrors(n) == tracing' = [tracing EXCEPT !.logged = @ + n]
CanLog(n) == tracing.logged + n <= MaxLogged

\* `tracing_service = TracingService()` at the import of the module:
\* __init__ logs an exception of Langfuse(...) or CallbackHandler() and
\* raises it again, so the import fails and the name is never bound.
TracingImport(fail) ==
  /\ tracing.module = "unloaded"
  /\ IF fail = "none"
     THEN tracing' = [tracing EXCEPT !.module = "loaded", !.langfuse = TRUE,
                                     !.handler = TRUE]
     ELSE tracing' = [tracing EXCEPT !.module = "failed", !.logged = @ + 1]
  /\ lastOp' = [op |-> "TracingService", fail |-> fail, body |-> "none",
                ret |-> IF fail = "none" THEN "ok" ELSE "raise",
                got |-> "none"]
  /\ UNCHANGED nottrace

\* with tracing_service.trace_interaction(...) as span: <body>. A failure of
\* trace or span creation is logged and the body runs with None. An exception
\* of the body is thrown into the generator at its yield: at `yield span` the
\* except clause catches it, logs it and yields again, which contextlib
\* answers with RuntimeError; at `yield None` it passes through.
TraceInteraction(fail, body) ==
  /\ tracing.module = "loaded"
  /\ LET caught == IF fail = "none" /\ body = "raise" THEN 1 ELSE 0
         failed == IF fail = "none" THEN 0 ELSE 1
     IN /\ CanLog(caught + failed)
        /\ LogErrors(caught + failed)
        /\ lastOp' = [op |-> "trace_interaction", fail |-> fail, body |-> body,
                      ret |-> CASE body = "ok" -> "ok"
                                [] fail = "none" -> "RuntimeError"
                                [] OTHER -> "raise",
                      got |-> IF fail = "none" THEN "span" ELSE "None"]
  /\ UNCHANGED nottrace

\* A method whose whole body is inside try / except Exception: logger.error.
Swallowed(op, fail) ==
  /\ tracing.module = "loaded"
  /\ CanLog(IF fail = "none" THEN 0 ELSE 1)
  /\ LogErrors(IF fail = "none" THEN 0 ELSE 1)
  /\ lastOp' = [op |-> op, fail |-> fail, body |-> "none", ret |-> "ok",
                got |-> "none"]
  /\ UNCHANGED nottrace

\* add_score: langfuse.score on a given trace, or a new trace, a span and
\* span.score.
AddScore(trace_id, fail) ==
  /\ fail \in IF trace_id THEN {"none", "score"}
              ELSE {"none", "trace", "span", "score"}
  /\ Swallowed("add_score", fail)

\* log_memory_access: a new trace, a span and span.score.
LogMemoryAccess(fail) ==
  /\ fail \in {"none", "trace", "span", "score"}
  /\ Swallowed("log_memory_access", fail)

\* flush: langfuse.flush()
Flush(fail) ==
  /\ fail \in {"none", "flush"}
  /\ Swallowed("flush", fail)

\* shutdown: self.flush(), which catches its own exception, then
\* langfuse.shutdown() inside shutdown's try.
Shutdown(flushFails, shutdownFails) ==
  /\ tracing.module = "loaded"
  /\ LET n == (IF flushFails THEN 1 ELSE 0) + (IF shutdownFails THEN 1 ELSE 0)
     IN /\ CanLog(n)
        /\ tracing' = [tracing EXCEPT !.logged = @ + n,
                                      !.closed = @ \/ ~shutdownFails]
  /\ lastOp' = [op |-> "shutdown",
                fail |-> CASE shutdownFails -> "shutdown"
                           [] flushFails -> "flush"
                           [] OTHER -> "none",
                body |-> "none", ret |-> "ok", got |-> "none"]
  /\ UNCHANGED nottrace

NextTrace ==
  \/ \E fail \in {"none", "Langfuse", "CallbackHandler"} : TracingImport(fail)
  \/ \E fail \in {"none", "trace", "span"}, body \in {"ok", "raise"} :
       TraceInteraction(fail, body)
  \/ \E trace_id \in BOOLEAN, fail \in {"none", "trace", "span", "score"} :
       AddScore(trace_id, fail)
  \/ \E fail \in {"none", "trace", "span", "score"} : LogMemoryAccess(fail)
  \/ \E fail \in {"none", "flush"} : Flush(fail)
  \/ \E flushFails, shutdownFails \in BOOLEAN :
       Shutdown(flushFails, shutdownFails)

SpecTrace == InitTrace /\ [][NextTrace]_vars

\* One research request from the retrieved chunks to its response: the graph,
\* then the references and the response, or the fallback. query contains no
\* await, so the event loop runs the handler through to its return.
NextRequest ==
  \/ GraphRewrite
  \/ GraphGrade
  \/ GraphGenerate
  \/ QueryFormat
  \/ QueryFallback

SpecRequest == InitGraph /\ [][NextRequest]_vars /\ WF_vars(NextRequest)

\* ================================================================ claims
QueryDone == pc["query"] = "done"
KnowledgeBase == qs.route = "vectorstore"
Threw(op) == \E j \in 1..Len(qs.log) : qs.log[j].op = op /\ ~qs.log[j].ok
Called(op) == \E j \in 1..Len(qs.log) : qs.log[j].op = op
Calls(op) == Cardinality({j \in 1..Len(qs.log) : qs.log[j].op = op})
ClientBack == pc["client"] = "idle"

\* C1: after rebuild(D) has returned, has_documents() is true exactly when D
\* is non-empty.
C1_RebuildThenHasDocuments ==
  (ClientBack /\ lastOp = [op |-> "rebuild", ret |-> "ok"])
    => (has_documents <=> docs["client"] # {})

C1_Witness ==
  /\ ClientBack /\ lastOp = [op |-> "rebuild", ret |-> "ok"]
  /\ docs["client"] # {} /\ has_documents

\* C2: a retrieve that follows reset() (or the construction of the pipeline)
\* with no write of the index in between fails with NotReady and returns no
\* results, whatever the index held before.
C2_ResetThenRetrieveNotReady ==
  lastOp.op \in {"reset", "init"} =>
    /\ pc["client"] # "r_invoke"
    /\ ret["client"].outcome \in {"none", "NotReady"}
    /\ ret["client"].results = <<>>

C2_Witness ==
  /\ lastOp.op = "reset" /\ disk.some
  /\ ClientBack /\ ret["client"].outcome = "NotReady"

\* C3: a query in flight together with one rebuild(new) that was called on an
\* index holding a complete snapshot gets results from the old or from the new
\* complete snapshot: it never finds no snapshot, and never a mixture.
C3_RebuildAtomicForQueries ==
  (QueryDone /\ KnowledgeBase /\ qs.overlaps = 1) =>
    /\ qs.hd = "ready"
    /\ ret["query"].outcome \in {"ok", "raise"}
    /\ ret["query"].outcome = "ok" =>
         /\ ret["query"].from.vec = ret["query"].from.kw
         /\ ret["query"].from.vec \in {qs.over.old, qs.over.new}

\* C4: no rebuild is under way while the query handler runs, and a query that
\* has passed the readiness check reads an index that is still ready: never a
\* field that a reset or a rebuild has cleared.
QueryRunning == InFlight("query") /\ pc["query"] # "q_queued"
C4_QueryExcludesRebuildAndReset ==
  /\ QueryRunning => pc["upload"] \notin RebuildPcs
  /\ pc["query"] = "r_invoke" => has_documents
  /\ ret["query"].outcome # "NoneRead"

C4_Witness ==
  /\ pc["query"] = "r_invoke" /\ pc["upload"] = "u_await"
  /\ docs["upload"] # {} /\ docs["upload"] # documents

\* C5: whenever has_documents() is true, the dense store, the fused retriever
\* and the document list were built from one and the same document set.
C5_OneSnapshot ==
  has_documents =>
    /\ vectorstore.src = split_documents(documents)
    /\ ensemble_retriever.vec = split_documents(documents)
    /\ ensemble_retriever.kw = split_documents(documents)

\* C6: a knowledge-base question that finds no snapshot when it reaches
\* retrieval ends in a normal response with the no-documents notice and no
\* references, and no oracle call (rewrite, grade, synthesis) is made.
FoundNoSnapshot ==
  qs.hd = "NotReady" \/ ret["query"].outcome \in {"NotReady", "NoneRead"}
C6_NotReadyIsTerminalNotice ==
  (QueryDone /\ KnowledgeBase /\ FoundNoSnapshot) =>
    /\ query_resp.status = 200
    /\ query_resp.answer = "no_documents"
    /\ query_resp.references = <<>>
    /\ ~Called("rewrite") /\ ~Called("grade") /\ ~Called("synth")
    /\ ~Called("fallback")

C6_Witness ==
  /\ QueryDone /\ KnowledgeBase /\ FoundNoSnapshot
  /\ query_resp.answer = "no_documents"

\* C7: Rewrite runs before Retrieve, and Retrieve asks the index the rewritten
\* question when the rewrite succeeded and the original one when it failed.
C7_RewriteBeforeRetrieve ==
  QueryDone =>
    \A i, j \in 1..Len(qs.log) :
      (qs.log[i].op = "rewrite" /\ qs.log[j].op = "retrieve") =>
        /\ i < j
        /\ qs.log[j].q = IF qs.log[i].ok THEN qs.rewritten_question
                         ELSE qs.question

\* What the references of the degraded answer are to be: every retrieved
\* chunk, in retrieval order, under its file name and with its own score.
AllRetrievedAsReferences ==
  /\ Len(query_resp.references) = Len(qs.documents)
  /\ \A j \in 1..Len(qs.documents) :
       /\ query_resp.references[j].source = <<qs.documents[j].source[2]>>
       /\ query_resp.references[j].relevance_score = qs.documents[j].score
OneFallbackCall ==
  /\ Calls("fallback") = 1
  /\ \A j \in 1..Len(qs.log) :
       qs.log[j].op = "fallback" => qs.log[j].q = qs.question

FallbackFailed == Threw("fallback")
RetrieveRaised == Threw("retrieve")
FailedCleanly ==
  /\ query_resp.answer = "none"
  /\ query_resp.references = <<>>
  /\ conversations[qs.thread_id].messages = qs.thread0

PrimaryAnswers == primary_llm /\ llm_call.probeOk /\ llm_call.primaryOk
BackupAnswers == backup_llm /\ llm_call.backupOk
C10_InvokeFailsOnlyIfBothUnusable ==
  (llm_call.pc = "done" /\ llm_call.result = "raise") =>
    ~PrimaryAnswers /\ ~BackupAnswers

\* C11: the choice of the backend is never cached: every invoke on a service
\* that holds a primary probes it; the call is served by the primary when the
\* probe answers, however many probes failed before, and by the backup when
\* it does not; and a probe, failed or not, leaves both handles as they were.
ProbedAnew ==
  (llm_call.pc \in {"call", "done"} /\ primary_llm) =>
    /\ llm_call.probed
    /\ llm_call.served = IF llm_call.probeOk THEN "primary"
                         ELSE IF backup_llm THEN "backup" ELSE "none"
ProbeKeepsHandles ==
  llm_call.pc = "select" =>
    primary_llm' = primary_llm /\ backup_llm' = backup_llm
C11_SelectionNeverCached == []ProbedAnew /\ [][ProbeKeepsHandles]_vars

C11_Witness ==
  /\ llm_call.pc = "done" /\ llm_call.failed = MaxProbeFails
  /\ llm_call.served = "primary" /\ llm_call.result = "text"

\* C12: when the rewrite call raises, or returns something that is not a
\* restated question, the question the next stage works with is the original
\* one; and the request always goes on to grading.
MalformedReply == qs.reply \in {"blank", "chatter"}
C12_RewriteFallsBackToOriginal ==
  Called("rewrite") =>
    /\ (Threw("rewrite") \/ MalformedReply) =>
         \A j \in 1..Len(qs.log) :
           qs.log[j].op = "grade" => qs.log[j].q = qs.question
    /\ QueryDone => Called("grade")

\* C13: a chunk whose grade reply did not parse as a number is in the graded
\* list with its original score as its grade; grading keeps every chunk, and
\* a reply that does not parse raises nothing: with no oracle call raising,
\* the main path answers.
GradingOver ==
  pc["query"] \in {"g_generate", "q_format", "q_fallback"}
    \/ (QueryDone /\ Called("grade"))
C13_UnparsedGradeIsOriginalScore ==
  /\ \A j \in 1..Len(qs.documents) :
       qs.documents[j].source \in qs.unparsed =>
         \E g \in 1..Len(qs.graded_docs) :
           /\ qs.graded_docs[g].source = qs.documents[j].source
           /\ qs.graded_docs[g].grade = qs.documents[j].score
  /\ GradingOver => Len(qs.graded_docs) = Len(qs.documents)
  /\ (QueryDone /\ qs.unparsed # {} /\ ~Threw("grade") /\ ~Threw("synth")) =>
       qs.via = "main" /\ query_resp.status = 200

C13_Witness ==
  /\ QueryDone /\ qs.via = "main" /\ ~Threw("grade")
  /\ Cardinality(qs.unparsed) = 1 /\ Len(qs.graded_docs) = 2
  /\ \E g \in 1..2 : qs.graded_docs[g].grade < 5

\* C14: every graded chunk, and every reference returned, carries a grade
\* between 0 and 1, whatever the oracle replied.
C14_GradesInUnitInterval ==
  /\ \A j \in 1..Len(qs.graded_docs) : qs.graded_docs[j].grade \in 0..10
  /\ \A j \in 1..Len(query_resp.references) :
       query_resp.references[j].relevance_score \in 0..10

\* C16: a request that has ended has either a response with an answer text,
\* a list of references and a thread id, or an error status and no answer.
AnswerTexts == {"text", "no_documents", "no_relevant_information"}
C16_WellFormedResponseOrError ==
  QueryDone =>
    \/ /\ query_resp.status = 200
       /\ query_resp.answer \in AnswerTexts
       /\ DOMAIN query_resp.references = 1..Len(query_resp.references)
       /\ query_resp.thread_id \in ThreadIds
    \/ /\ query_resp.status = 400
       /\ query_resp.answer = "none"
       /\ query_resp.references = <<>>

C16_Witness ==
  /\ QueryDone /\ qs.via = "fallback" /\ query_resp.status = 200
  /\ query_resp.answer = "text" /\ Len(query_resp.references) > 0

\* C17: the references of a response, from the main path or from the
\* fallback, are in order of relevance score, largest first, and each snippet
\* is the prefix of the cited chunk's content with at most 500 characters.
C17_ReferencesSortedAndCut ==
  QueryDone =>
    /\ \A i, j \in 1..Len(query_resp.references) :
         i < j => query_resp.references[i].relevance_score
                    >= query_resp.references[j].relevance_score
    /\ \A j \in 1..Len(query_resp.references) :
         \E d \in 1..Len(qs.documents) :
           LET ref == query_resp.references[j]
               content == qs.documents[d].content
           IN /\ ref.source = <<qs.documents[d].source[2]>>
              /\ ref.snippet.of = content.of
              /\ ref.snippet.len <= 500
              /\ ref.snippet.len = content.len \/ ref.snippet.len = 500
              /\ ref.snippet.len <= content.len

C17_Witness ==
  /\ QueryDone /\ qs.via = "main" /\ Len(query_resp.references) = 2
  /\ query_resp.references[1].relevance_score
       > query_resp.references[2].relevance_score
  /\ \E j \in 1..2 : /\ query_resp.references[j].snippet.len = 500
                     /\ query_resp.references[j].snippet.of = 2

\* C15: selection returns exactly the graded chunks with a grade above 0.5
\* when there is one, and otherwise exactly the two chunks with the highest
\* grades (all of them when there are fewer than two).
GradedSet == {qs.graded_docs[j] : j \in 1..Len(qs.graded_docs)}
SelectedSet == {qs.relevant_docs[j] : j \in 1..Len(qs.relevant_docs)}
AboveHalf == {g \in GradedSet : g.grade > 5}
C15_SelectAboveHalfOrTopTwo ==
  pc["query"] = "q_format" =>
    /\ Cardinality(SelectedSet) = Len(qs.relevant_docs)
    /\ IF AboveHalf # {}
       THEN SelectedSet = AboveHalf
       ELSE /\ SelectedSet \subseteq GradedSet
            /\ Cardinality(SelectedSet) =
                 IF Len(qs.graded_docs) < 2 THEN Len(qs.graded_docs) ELSE 2
            /\ \A a \in SelectedSet, b \in GradedSet \ SelectedSet :
                 a.grade >= b.grade

C15_Witness ==
  /\ pc["query"] = "q_format" /\ Len(qs.graded_docs) = 3
  /\ AboveHalf = {} /\ Len(qs.relevant_docs) = 2
  /\ qs.relevant_docs[1].grade = 5
  /\ \E b \in GradedSet \ SelectedSet : b.grade = 3

\* C18: a thread is an append-only log: the stored messages of every thread
\* are the messages appended since its last clear, in the order of the calls,
\* and get_messages with no last_k returns exactly them.
StoredIsAppended ==
  \A t \in ThreadIds : conversations[t].messages = lastOp.appended[t]
C18_ThreadIsAppendOnlyLog ==
  /\ StoredIsAppended
  /\ (lastOp.op = "get_messages" /\ lastOp.k = NoLastK) =>
       lastOp.ret = lastOp.appended[lastOp.thread]

C18_Witness ==
  /\ lastOp.op = "get_messages" /\ lastOp.k = NoLastK
  /\ lastOp.ret = <<HumanMessage("a"), AIMessage("b")>>
  /\ lastOp.appended[lastOp.thread] = lastOp.ret

\* C19: for a thread of n messages and an integer k >= 0,
\* get_messages(thread, last_k=k) returns the last min(k, n) messages in
\* their order and leaves the stored thread as it was.
LastOf(messages, k) ==
  LET n == Len(messages)
      m == IF k < n THEN k ELSE n
  IN [j \in 1..m |-> messages[n - m + j]]
C19_LastKMessages ==
  (lastOp.op = "get_messages" /\ lastOp.k # NoLastK) =>
    /\ lastOp.ret = LastOf(lastOp.appended[lastOp.thread], lastOp.k[1])
    /\ StoredIsAppended

\* C20: after clear_thread(t) the thread does not exist and its messages are
\* empty, whatever it held; on a thread that does not exist the call changes
\* nothing (no other thread either) and returns normally.
C20_ClearThread ==
  lastOp.op = "clear_thread" =>
    /\ ~thread_exists(conversations, lastOp.thread)
    /\ get_messages(conversations, lastOp.thread, NoLastK) = <<>>
    /\ lastOp.ret = "ok"
    /\ \A t \in ThreadIds \ {lastOp.thread} :
         /\ conversations[t].messages = lastOp.appended[t]
         /\ thread_exists(conversations, t) <=> lastOp.appended[t] # <<>>

C20_Witness ==
  /\ lastOp.op = "clear_thread"
  /\ ~thread_exists(conversations, lastOp.thread)
  /\ \E t \in ThreadIds : Len(conversations[t].messages) = 2

\* C21: threads are independent: an add_message or a clear_thread on one
\* thread leaves the messages and the existence of every other thread as they
\* were, in whatever order calls on different threads follow one another.
OtherThreadsKept ==
  lastOp'.op \in {"add_message", "clear_thread"} =>
    \A t \in ThreadIds \ {lastOp'.thread} : conversations'[t] = conversations[t]
C21_ThreadsIndependent == [][OtherThreadsKept]_vars

C21_Witness ==
  /\ lastOp.op = "add_message" /\ lastOp.thread = "t1"
  /\ Len(conversations["t1"].messages) = 2
  /\ Len(conversations["u1"].messages) = 1
  /\ conversations["t1"].messages[2] # conversations["u1"].messages[1]

\* C22: reset_thread(t) answers NotFound (404) and changes nothing when t is
\* unknown, and succeeds exactly when t holds at least one message; after
\* either answer t is unknown, so a second reset_thread(t) straight after a
\* successful one answers NotFound.
ResetThreadAnswer ==
  lastOp.op = "reset_thread" =>
    /\ lastOp.ret = IF lastOp.had = <<>> THEN 404 ELSE 200
    /\ StoredIsAppended
    /\ ~thread_exists(conversations, lastOp.thread)
SecondResetNotFound ==
  (/\ lastOp.op = "reset_thread" /\ lastOp.ret = 200
   /\ lastOp'.op = "reset_thread" /\ lastOp'.thread = lastOp.thread)
    => lastOp'.ret = 404
C22_ResetThreadNotFound == []ResetThreadAnswer /\ [][SecondResetNotFound]_vars

C22_Witness ==
  /\ lastOp.op = "reset_thread" /\ lastOp.ret = 200 /\ Len(lastOp.had) = 2
  /\ Len(conversations["u1"].messages) = 1 /\ lastOp.thread = "t1"

\* C23: rebuild is a full replace and idempotent: once rebuild(D) has
\* returned, every field of the index is built from D alone, whatever the
\* index held at the call (another set, or D itself), and a retrieve that
\* follows returns the chunks of D.
RebuildReturned == ClientBack /\ lastOp = [op |-> "rebuild", ret |-> "ok"]
BuiltFrom(D) ==
  /\ vectorstore = [some |-> TRUE, src |-> D]
  /\ keyword_retriever.some /\ keyword_retriever.src = D
  /\ ensemble_retriever.some
  /\ ensemble_retriever.vec = D /\ ensemble_retriever.kw = D
  /\ documents = D /\ Cardinality(documents) = Cardinality(D)
  /\ embeddings = "emb"
C23_RebuildReplacesAll ==
  RebuildReturned =>
    /\ BuiltFrom(docs["client"])
    /\ ret["client"].outcome = "ok" =>
         {ret["client"].results[i].source :
            i \in 1..Len(ret["client"].results)}
           = {Source(d) : d \in docs["client"]}

C23_Witness ==
  /\ RebuildReturned /\ before["client"].ready
  /\ before["client"].snap \ docs["client"] # {}
  /\ docs["client"] # {} /\ ret["client"].outcome = "ok"

\* C24: reset is a full clear and idempotent: once reset() has returned,
\* the dense store, the lexical retriever, the fused retriever, the documents
\* and the embeddings are those of a newly constructed pipeline, and a reset
\* that follows it changes none of them.
ResetReturned == ClientBack /\ lastOp.op = "reset"
AsConstructed ==
  /\ vectorstore = [some |-> FALSE, src |-> {}]
  /\ ~keyword_retriever.some /\ keyword_retriever.src = {}
  /\ ~ensemble_retriever.some
  /\ ensemble_retriever.vec = {} /\ ensemble_retriever.kw = {}
  /\ documents = {}
  /\ embeddings = "None"
SecondResetKeeps ==
  (ResetReturned /\ ResetReturned') => UNCHANGED index
C24_ResetClearsAll ==
  [](ResetReturned => AsConstructed) /\ [][SecondResetKeeps]_vars

C24_Witness ==
  /\ ResetReturned /\ before["client"].ready
  /\ Cardinality(before["client"].snap) = NumDocs

\* C25: retrieve is read-only and deterministic: no step of retrieve writes
\* a field of the index or the saved store, and a retrieve that returns on an
\* index nobody has written since an earlier retrieve returned gives the
\* same list in the same order.
RetrieveReadOnly ==
  pc["client"] \in {"r_check", "r_invoke"} => UNCHANGED <<index, disk>>
SameAsEarlier ==
  (ret["client"].outcome = "ok" /\ ret["client"].last # <<>>)
    => ret["client"].results = ret["client"].last
C30_ReadyMeansRebuildSettings ==
  has_documents =>
    /\ ensemble_retriever.wv = 7 /\ ensemble_retriever.wk = 3
    /\ ensemble_retriever.vk = 6 /\ ensemble_retriever.kk = 6

\* C28: within one request every stage runs at most once and none is gone
\* back to: at most one rewrite call, at most one grade call per retrieved
\* chunk, at most one synthesis call and at most one fallback call, in that
\* order; and the request ends once the oracle has answered each call.
StageRank(op) ==
  CASE op = "retrieve" -> 1
    [] op = "rewrite" -> 2
    [] op = "grade" -> 3
    [] op = "synth" -> 4
    [] op = "fallback" -> 5
EachStageOnce ==
  /\ Calls("rewrite") <= 1
  /\ Calls("grade") <= Len(qs.documents)
  /\ Calls("synth") <= 1
  /\ Calls("fallback") <= 1
  /\ \A j, k \in 1..Len(qs.log) :
       j < k => StageRank(qs.log[j].op) <= StageRank(qs.log[k].op)
C28_StagesOnceAndRequestEnds == []EachStageOnce /\ <>(pc["query"] = "done")

C28_Witness ==
  /\ pc["query"] = "done" /\ Len(qs.documents) = 3
  /\ Calls("rewrite") = 1 /\ Calls("grade") = 3
  /\ Calls("synth") = 1 /\ Calls("fallback") = 1

\* C29: when grading is over, the graded list holds the retrieved chunks,
\* each once and with the score it was retrieved with, and its grades do not
\* increase along the list; this on the normal path and when a grade call
\* raised.
ScoreKept(g) ==
  IF "original_score" \in DOMAIN g THEN g.original_score ELSE g.score
GradedIsPermutation ==
  /\ Len(qs.graded_docs) = Len(qs.documents)
  /\ \A j \in 1..Len(qs.documents) :
       Cardinality({g \in 1..Len(qs.graded_docs) :
                      /\ qs.graded_docs[g].source = qs.documents[j].source
                      /\ qs.graded_docs[g].content = qs.documents[j].content
                      /\ ScoreKept(qs.graded_docs[g]) = qs.documents[j].score})
         = 1
GradesNonIncreasing ==
  \A g \in 1..(Len(qs.graded_docs) - 1) :
    qs.graded_docs[g].grade >= qs.graded_docs[g + 1].grade
C29_GradedIsSortedPermutation ==
  GradingOver => (GradedIsPermutation /\ GradesNonIncreasing)

C29_Witness ==
  /\ GradingOver /\ ~Threw("grade") /\ Len(qs.documents) = 3
  /\ qs.graded_docs[1].source = qs.documents[3].source
  /\ qs.graded_docs[1].grade > qs.graded_docs[3].grade

\* C26: a failure inside tracing (initialisation of the service, creation
\* of a trace or span, a score, the memory-access log, flush, shutdown) is
\* swallowed and logged only: the caller gets what it would get without the
\* failure, and the service stays there for the application to run.
C26_TracingFailureSwallowed ==
  lastOp.fail # "none" =>
    /\ lastOp.ret = IF lastOp.body = "raise" THEN "raise" ELSE "ok"
    /\ tracing.module = "loaded"
    /\ tracing.logged > 0

\* C31: an upload rebuilds the index exactly when at least one file yielded
\* content; an upload with no file, or with files that all failed, is answered
\* with status 400 and has not called rebuild.
UploadDone == pc["upload"] = "done"
C31_UploadWithoutContentIs400 ==
  (UploadDone /\ docs["upload"] = {}) =>
    /\ upload_resp.status = 400
    /\ ~upload_resp.rebuilt

\* C32 as stated: whenever the knowledge-base pipeline returns a generated
\* answer for a non-empty retrieval result, the reference list is non-empty
\* and every reference's source is the source of a chunk retrieved for that
\* request.
GeneratedFromChunks ==
  /\ QueryDone /\ qs.via \in {"main", "fallback"}
  /\ query_resp.status = 200 /\ qs.documents # <<>>
RetrievedSources == {qs.documents[j].source : j \in 1..Len(qs.documents)}
ReferenceSources ==
  {query_resp.references[j].source : j \in 1..Len(query_resp.references)}
C32_ReferencesCarryChunkSources ==
  GeneratedFromChunks =>
    /\ query_resp.references # <<>>
    /\ ReferenceSources \subseteq RetrievedSources

\* C32 as amended: the reference list is non-empty and every reference's
\* source is the last path component (the file name) of the source of a chunk
\* retrieved for that request.
C32_ReferencesCarryChunkFileNames ==
  GeneratedFromChunks =>
    /\ query_resp.references # <<>>
    /\ ReferenceSources \subseteq {<<src[Len(src)]>> : src \in RetrievedSources}

C32_Witness ==
  /\ GeneratedFromChunks /\ qs.via = "main" /\ Len(qs.documents) = 2
  /\ Len(query_resp.references) = 2
  /\ \A j \in 1..2 : qs.graded_docs[j].grade <= 5

\* C33: a classified question is handled by exactly the handler of its
\* class (memory, knowledge base, general); the memory and the general
\* handler never read the index and return an empty reference list, and a
\* response carries the thread id of the request when the request gave one.
Classified == QueryDone /\ qs.route \in {"memory", "general", "vectorstore"}
IndexNotRead ==
  /\ qs.hd = "none"
  /\ ret["query"] = NoRet
  /\ qs.documents = <<>> /\ ~Called("retrieve")
C33_OneHandlerByClass ==
  Classified =>
    /\ qs.route = "memory" => qs.via = "memory"
    /\ qs.route = "general" => qs.via = "general"
    /\ qs.route = "vectorstore" => qs.via \notin {"memory", "general"}
    /\ qs.route \in {"memory", "general"} =>
         /\ IndexNotRead
         /\ query_resp.references = <<>>
         /\ Len(qs.log) = 0
    /\ (query_resp.status = 200 /\ qs.request_thread_id # "none") =>
         query_resp.thread_id = qs.request_thread_id

C33_Witness ==
  /\ Classified /\ qs.route = "general" /\ query_resp.status = 200
  /\ qs.request_thread_id = "t1" /\ has_documents

\* C34: thread_status(t) reports as message_count the number of messages
\* stored for t and has_history true exactly when that number is positive;
\* for an unknown t it reports 0 and false, not NotFound; and it creates or
\* changes no thread.
StatusAnswer ==
  lastOp.op = "thread_status" =>
    LET told == lastOp.appended[lastOp.thread]
    IN /\ lastOp.ret.status = 200
       /\ lastOp.ret.message_count = Len(told)
       /\ lastOp.ret.has_history <=> Len(told) > 0
       /\ StoredIsAppended
       /\ told = <<>> => ~thread_exists(conversations, lastOp.thread)
StatusReadsOnly ==
  lastOp'.op = "thread_status" => conversations' = conversations
C34_ThreadStatusCountsAndReads ==
  []StatusAnswer /\ [][StatusReadsOnly]_vars

C34_Witness ==
  /\ lastOp.op = "thread_status" /\ lastOp.thread = "u1"
  /\ lastOp.ret.message_count = 0 /\ ~lastOp.ret.has_history
  /\ Len(conversations["t1"].messages) = 2

\* C35: a request that returns a generated answer (memory, general,
\* knowledge-base main path or fallback) appends exactly two messages to its
\* thread, the question and then the answer; a request that ends in an error
\* or in one of the two notices appends nothing, so the thread it names
\* exists only if it existed before.
AnswerGenerated ==
  /\ query_resp.status = 200
  /\ qs.via \in {"memory", "general", "main", "fallback"}
SelectedWithFullGrade(doc) ==
  \E r \in 1..Len(qs.relevant_docs) :
    /\ qs.relevant_docs[r].source = doc.source
    /\ qs.relevant_docs[r].grade = 10
C36_ConstantScoreAlwaysSelected ==
  /\ \A j \in 1..Len(qs.documents) : qs.documents[j].score = 10
  /\ pc["query"] = "q_format" =>
       /\ \A j \in 1..Len(qs.documents) :
            qs.documents[j].source \in qs.unparsed =>
              SelectedWithFullGrade(qs.documents[j])
       /\ Threw("grade") =>
            /\ Len(qs.relevant_docs) = Len(qs.documents)
            /\ \A j \in 1..Len(qs.documents) :
                 SelectedWithFullGrade(qs.documents[j])

C36_Witness ==
  /\ pc["query"] = "q_format" /\ ~Threw("grade")
  /\ Len(qs.documents) = 3 /\ Len(qs.relevant_docs) = 1
  /\ Cardinality(qs.unparsed) = 1
  /\ qs.relevant_docs[1].source \in qs.unparsed

\* C37: rebuild clears the old snapshot before it builds, so a rebuild that
\* raised partway leaves the index NotReady: has_documents() is false, a
\* retrieve fails with NotReady and returns nothing, and the snapshot held
\* before is not there any more.
RebuildFailed ==
  /\ lastOp = [op |-> "rebuild", ret |-> "raise"]
  /\ pc["client"] \notin RebuildPcs
C37_FailedRebuildLeavesNotReady ==
  RebuildFailed =>
    /\ ~has_documents
    /\ documents = {} /\ ~ensemble_retriever.some
    /\ pc["client"] # "r_invoke"
    /\ ret["client"].outcome \in {"none", "NotReady"}
    /\ ret["client"].results = <<>>

C37_Witness ==
  /\ RebuildFailed /\ ClientBack
  /\ before["client"].ready /\ before["client"].snap # {}
  /\ vectorstore.some /\ vectorstore.src # before["client"].snap
  /\ ret["client"].outcome = "NotReady"

\* C38: the selector runs setup_llm again only when both handles are
\* absent; a service whose primary failed to initialise and whose backup
\* exists keeps exactly that: every invoke is served by the backup, without a
\* probe, and the primary is never constructed again.
SetupOnlyWhenBothAbsent ==
  /\ <<primary_llm, backup_llm>>' # <<primary_llm, backup_llm>>
       => (~primary_llm /\ ~backup_llm)
  /\ (llm_call'.pc = "select" /\ llm_call'.setup)
       => (~primary_llm /\ ~backup_llm)
BackupOnlyStays ==
  (~primary_llm /\ backup_llm) => (~primary_llm' /\ backup_llm')
ServedByBackup ==
  (llm_call.pc \in {"call", "done"} /\ ~primary_llm /\ backup_llm) =>
    /\ llm_call.served = "backup"
    /\ ~llm_call.probed
C38_BackupOnlyNeverRebuildsPrimary ==
  /\ []ServedByBackup
  /\ [][SetupOnlyWhenBothAbsent]_vars
  /\ [][BackupOnlyStays]_vars

C38_Witness ==
  /\ llm_call.pc = "done" /\ ~primary_llm /\ backup_llm
  /\ ~llm_call.setup /\ llm_call.served = "backup"
  /\ llm_call.result = "text"

====
